---- MODULE Spec2Model ----
(***************************************************************************)
(* gpx2garmin: the Track Generator (generate_run_gpx.py) and the Activity  *)
(* Uploader (garmin_uploader.py) as state machines.                        *)
(*                                                                         *)
(* Strings that the code takes apart (paths, extensions) are sequences of  *)
(* one-character strings.  Instants are (s, us) pairs counted from         *)
(* 2026-01-01T00:00:00 UTC, the way datetime/timedelta keep seconds and    *)
(* microseconds apart.  Distances are in metres, so that                   *)
(* total_distance_km * points_per_km is dist * ppk / 1000.                 *)
(* The random walk (lat, lon, ele, hr) is not modelled: it feeds neither   *)
(* the timestamps, the file name nor the control flow.  The file system is *)
(* writable (makedirs and open succeed).                                   *)
(***************************************************************************)
EXTENDS Integers, Sequences, FiniteSets, TLC

VARIABLES
    clock,        \* what datetime.utcnow() returns now: [s, us]
    fs,           \* the file system: path -> entry
    genLog,       \* one record per generate_run_gpx invocation, in order
    pc,           \* the uploader process's position
    args,         \* what the command line holds / parse_args returns
    environ,      \* GARMIN_USERNAME / GARMIN_PASSWORD after load_dotenv
    path,         \* the uploader's resolved path
    checks,       \* the uploader's steps taken, in order
    stdout,       \* lines printed to standard output (by kind)
    stderr,       \* lines printed to standard error (by kind)
    exitStatus,   \* the process's exit status once pc = "exited"
    loginResult,  \* "none" | "ok" | "raised"
    uploadResult, \* "none" | "ok" | "raised"
    ticks         \* how often the clock has advanced

vars == <<clock, ticks, fs, genLog, pc, args, environ, path, checks, stdout, stderr,
          exitStatus, loginResult, uploadResult>>

uploaderVars == <<pc, args, environ, path, checks, stdout, stderr, exitStatus,
                  loginResult, uploadResult>>

----------------------------------------------------------------------------
(* Bounds of the model *)

MaxGens == 2
MaxTicks == 3

----------------------------------------------------------------------------
(* Strings *)

Digit(n) == <<"0", "1", "2", "3", "4", "5", "6", "7", "8", "9">>[n + 1]

TwoDigits(n) == <<Digit((n \div 10) % 10), Digit(n % 10)>>

\* str.lower() over the letters the model's paths use
LowerChar(c) ==
    CASE c = "G" -> "g"
      [] c = "P" -> "p"
      [] c = "X" -> "x"
      [] c = "F" -> "f"
      [] c = "I" -> "i"
      [] c = "T" -> "t"
      [] OTHER -> c

Lower(s) == [i \in 1..Len(s) |-> LowerChar(s[i])]

\* str.rfind for one character, 1-based; 0 when absent
RFind(s, c) ==
    LET hits == {i \in 1..Len(s) : s[i] = c}
    IN IF hits = {} THEN 0 ELSE CHOOSE i \in hits : \A j \in hits : j <= i

\* os.path.splitext(p)[1]: from the last dot of the last component, unless
\* that component holds nothing but dots before it
SplitExt(p) ==
    LET sep == RFind(p, "/")
        dot == RFind(p, ".")
    IN IF dot > sep /\ \E k \in (sep + 1)..(dot - 1) : p[k] # "."
       THEN SubSeq(p, dot, Len(p))
       ELSE <<>>

ExtGpx == <<".", "g", "p", "x">>
ExtFit == <<".", "f", "i", "t">>

\* the extension is neither .gpx nor .fit, compared case-insensitively
Unsupported(p) == Lower(SplitExt(p)) \notin {ExtGpx, ExtFit}

----------------------------------------------------------------------------
(* Time *)

pace_sec == 360
DefaultDistance == 10000
DefaultPointsPerKm == 10

\* datetime + timedelta, with the microseconds' carry
AddDelta(t, d) ==
    LET us == t.us + d.us
    IN [s |-> t.s + d.s + us \div 1000000, us |-> us % 1000000]

\* i * timedelta
MulDelta(i, d) ==
    LET us == i * d.us
    IN [s |-> i * d.s + us \div 1000000, us |-> us % 1000000]

\* timedelta(seconds=pace_sec/points_per_km), points_per_km > 0: the quotient
\* rounded half-even to the microsecond, timedelta's resolution
TimeDelta(ppk) ==
    LET n == pace_sec * 1000000
        q == n \div ppk
        r == n % ppk
        rounded == IF 2 * r > ppk \/ (2 * r = ppk /\ q % 2 = 1) THEN q + 1 ELSE q
    IN [s |-> rounded \div 1000000, us |-> rounded % 1000000]

\* the fields strftime prints: %d %H %M %S; the microseconds are dropped
Civil(t) ==
    [day |-> t.s \div 86400,
     hh  |-> (t.s % 86400) \div 3600,
     mm  |-> (t.s % 3600) \div 60,
     ss  |-> t.s % 60]

\* the instant a printed timestamp denotes, in seconds
CivilSeconds(c) == ((c.day * 24 + c.hh) * 60 + c.mm) * 60 + c.ss

\* FileName at minute resolution: the format without %S
FileNameMinute(t) ==
    LET c == Civil(t)
    IN <<"o", "u", "t", "p", "u", "t", "/", "r", "u", "n", "_">>
       \o <<"2", "0", "2", "6", "0", "1">> \o TwoDigits(c.day + 1) \o <<"_">>
       \o TwoDigits(c.hh) \o TwoDigits(c.mm) \o ExtGpx

\* FileName without its extension
FileNameNoExt(t) ==
    LET c == Civil(t)
    IN <<"o", "u", "t", "p", "u", "t", "/", "r", "u", "n", "_">>
       \o <<"2", "0", "2", "6", "0", "1">> \o TwoDigits(c.day + 1) \o <<"_">>
       \o TwoDigits(c.hh) \o TwoDigits(c.mm) \o TwoDigits(c.ss)

\* time0.strftime('output/run_%Y%m%d_%H%M%S.gpx'), days of January 2026
FileName(t) ==
    LET c == Civil(t)
    IN <<"o", "u", "t", "p", "u", "t", "/", "r", "u", "n", "_">>
       \o <<"2", "0", "2", "6", "0", "1">> \o TwoDigits(c.day + 1) \o <<"_">>
       \o TwoDigits(c.hh) \o TwoDigits(c.mm) \o TwoDigits(c.ss) \o ExtGpx

----------------------------------------------------------------------------
(* The file system *)

OutputDir == <<"o", "u", "t", "p", "u", "t">>

DirEntry == [kind |-> "dir", gen |-> 0, ppk |-> 0, times |-> <<>>]

\* a file that no generation of this model wrote
UserFile == [kind |-> "file", gen |-> 0, ppk |-> 0, times |-> <<>>]

Put(disk, p, e) == [q \in DOMAIN disk \cup {p} |-> IF q = p THEN e ELSE disk[q]]

\* os.makedirs(p, exist_ok=True)
MakeDirs(disk, p) == IF p \in DOMAIN disk THEN disk ELSE Put(disk, p, DirEntry)

\* os.path.isfile
IsFile(disk, p) == p \in DOMAIN disk /\ disk[p].kind = "file"

----------------------------------------------------------------------------
(* generate_run_gpx *)

\* int(x) of the quotient num/den, den > 0: towards zero
IntTrunc(num, den) == IF num >= 0 THEN num \div den ELSE -((-num) \div den)

\* total_points = int(total_distance_km * points_per_km)
TotalPoints(dist, ppk) == IntTrunc(dist * ppk, 1000)

\* the <time> of every trkpt, in order: time0 + i*delta_t printed by strftime
PointTimes(time0, n, ppk) ==
    IF n <= 0 THEN <<>>
    ELSE [k \in 1..n |-> Civil(AddDelta(time0, MulDelta(k - 1, TimeDelta(ppk))))]

\* generate_run_gpx with the per-point distance guarded against a zero
\* count (total_distance_km / max(total_points, 1)): only line 44 can raise
generate_run_gpx_guarded(dist, ppk, now, disk, id) ==
    LET n  == TotalPoints(dist, ppk)
        fn == FileName(now)
    IN IF ppk = 0
       THEN [outcome |-> "ZeroDivisionError", raisedAt |-> "delta_t", path |-> <<>>,
             time0 |-> now, dist |-> dist, ppk |-> ppk, disk |-> disk]
       ELSE [outcome |-> "returned", raisedAt |-> "", path |-> fn, time0 |-> now,
             dist |-> dist, ppk |-> ppk,
             disk |-> Put(MakeDirs(disk, OutputDir), fn,
                          [kind |-> "file", gen |-> id, ppk |-> ppk,
                           times |-> PointTimes(now, n, ppk)])]

\* One call of generate_run_gpx(total_distance_km, points_per_km) made as
\* invocation id when utcnow() is now and the file system is disk: what it
\* raised or returned, and the file system it leaves.
generate_run_gpx(dist, ppk, now, disk, id) ==
    LET n  == TotalPoints(dist, ppk)
        fn == FileName(now)
    IN IF n = 0
       THEN \* line 42: total_distance_km / total_points
            [outcome |-> "ZeroDivisionError", raisedAt |-> "dist_km", path |-> <<>>,
             time0 |-> now, dist |-> dist, ppk |-> ppk, disk |-> disk]
       ELSE [outcome |-> "returned", raisedAt |-> "", path |-> fn, time0 |-> now,
             dist |-> dist, ppk |-> ppk,
             disk |-> Put(MakeDirs(disk, OutputDir), fn,
                          [kind |-> "file", gen |-> id, ppk |-> ppk,
                           times |-> PointTimes(now, n, ppk)])]

\* what genLog keeps of a call
LogEntry(r) == [outcome |-> r.outcome, raisedAt |-> r.raisedAt, path |-> r.path,
                time0 |-> r.time0, dist |-> r.dist, ppk |-> r.ppk]

----------------------------------------------------------------------------
(* Inputs *)

\* utcnow() when the run starts: mid-second, and two seconds before midnight
StartTimes == {[s |-> 58, us |-> 600000], [s |-> 86398, us |-> 0]}

\* (total_distance in metres, points_per_km): the defaults (100 points); 3
\* points 36 s apart; 3 points 360/7 s apart; 4 points 0.9 s apart; a zero
\* density; a product of 0.5; a zero distance; a negative distance
GenInputs ==
    {<<DefaultDistance, DefaultPointsPerKm>>, <<300, 10>>, <<500, 7>>, <<10, 400>>,
     <<1000, 0>>, <<50, 10>>, <<0, 10>>, <<-1000, 10>>}

NoneValue == "<None>"
EnvValues == {NoneValue, "", "runner@example.com"}

\* Python's truth of an Optional[str]
Falsy(v) == v = NoneValue \/ v = ""

PathGpx   == <<"a", ".", "g", "p", "x">>
PathUpper == <<"a", ".", "G", "P", "X">>
PathFit   == <<"a", ".", "f", "i", "t">>
PathTxt   == <<"a", ".", "t", "x", "t">>
PathBare  == <<"r", "u", "n">>
PathDot   == <<".", "g", "p", "x">>
PathDir   == <<"d", ".", "g", "p", "x">>
PathEmpty == <<>>

UserPaths == {PathGpx, PathUpper, PathFit, PathTxt, PathBare, PathDot, PathDir, PathEmpty}

EmptyDisk == [q \in {} |-> UserFile]

\* every named path is a regular file, but d.gpx, a directory
FullDisk ==
    [q \in UserPaths \ {PathEmpty} |-> IF q = PathDir THEN DirEntry ELSE UserFile]

\* the command line: -h/--help among the arguments, arguments argparse
\* rejects, no argument, or --file/-f with a value
ArgChoices ==
    {[kind |-> "help", given |-> FALSE, file |-> <<>>],
     [kind |-> "usage", given |-> FALSE, file |-> <<>>],
     [kind |-> "ok", given |-> FALSE, file |-> <<>>]}
    \cup {[kind |-> "ok", given |-> TRUE, file |-> f] : f \in UserPaths}

ErrFileNotFound == "Error: file not found: <path>"
ErrCredentials  == "Error: GARMIN_USERNAME and GARMIN_PASSWORD must be set in environment"
ErrLogin        == "Login failed: <e>"
ErrExtension    == "Error: File must be .gpx or .fit"
ErrUpload       == "Upload failed: <e>"
ErrUsage        == "usage: <argparse error>"

----------------------------------------------------------------------------
(* The clock and standalone generator calls *)

Tick ==
    /\ ticks < MaxTicks
    /\ \E us \in {400000, 1000000} : clock' = AddDelta(clock, [s |-> 0, us |-> us])
    /\ ticks' = ticks + 1
    /\ UNCHANGED <<fs, genLog>>
    /\ UNCHANGED uploaderVars

\* generate_run_gpx called by a caller of its own choice of arguments
\* (generate_run_gpx.py run as a script calls it with the defaults)
GenCall ==
    /\ pc = "idle"
    /\ Len(genLog) < MaxGens
    /\ \E in \in GenInputs :
          LET r == generate_run_gpx(in[1], in[2], clock, fs, Len(genLog) + 1)
          IN /\ fs' = r.disk
             /\ genLog' = Append(genLog, LogEntry(r))
             /\ stdout' = IF r.outcome = "returned"
                          THEN Append(stdout, "GPX file saved to <fn>")
                          ELSE stdout
    /\ UNCHANGED <<clock, ticks, pc, args, environ, path, checks, stderr, exitStatus,
                   loginResult, uploadResult>>

----------------------------------------------------------------------------
(* garmin_uploader.py *)

\* sys.exit(status), or running off the end of the script (status 0)
Exit(status) == pc' = "exited" /\ exitStatus' = status

\* parser.parse_args(): -h prints the help and exits 0, a bad command line
\* prints the usage and exits 2
ParseArgs ==
    /\ pc = "parse"
    /\ CASE args.kind = "help" ->
              /\ stdout' = Append(stdout, "usage: <help>")
              /\ Exit(0)
              /\ UNCHANGED stderr
         [] args.kind = "usage" ->
              /\ stderr' = Append(stderr, ErrUsage)
              /\ Exit(2)
              /\ UNCHANGED stdout
         [] OTHER ->
              /\ pc' = "resolve"
              /\ UNCHANGED <<stdout, stderr, exitStatus>>
    /\ UNCHANGED <<clock, ticks, fs, genLog, args, environ, path, checks,
                   loginResult, uploadResult>>

\* ResolvePath with the credential check made before the path is resolved
ResolvePathCredsFirst ==
    /\ pc = "resolve"
    /\ IF Falsy(environ.username) \/ Falsy(environ.password)
       THEN /\ checks' = Append(checks, "credentials")
            /\ stderr' = Append(stderr, ErrCredentials)
            /\ Exit(1)
            /\ UNCHANGED <<path, fs, genLog, stdout>>
       ELSE IF args.given /\ args.file # <<>>
       THEN /\ path' = args.file
            /\ checks' = Append(checks, "isfile")
            /\ IF ~IsFile(fs, args.file)
               THEN /\ stderr' = Append(stderr, ErrFileNotFound)
                    /\ Exit(1)
               ELSE /\ pc' = "credentials"
                    /\ UNCHANGED <<stderr, exitStatus>>
            /\ UNCHANGED <<fs, genLog, stdout>>
       ELSE LET r == generate_run_gpx(DefaultDistance, DefaultPointsPerKm, clock, fs,
                                      Len(genLog) + 1)
            IN /\ checks' = Append(checks, "generate")
               /\ fs' = r.disk
               /\ genLog' = Append(genLog, LogEntry(r))
               /\ path' = r.path
               /\ stdout' = Append(stdout, "GPX file saved to <fn>")
               /\ pc' = "credentials"
               /\ UNCHANGED <<stderr, exitStatus>>
    /\ UNCHANGED <<clock, ticks, args, environ, loginResult, uploadResult>>

\* __main__, lines 59-65: if args.file: ... else: path = generate_run_gpx()
ResolvePath ==
    /\ pc = "resolve"
    /\ IF args.given /\ args.file # <<>>
       THEN /\ path' = args.file
            /\ checks' = Append(checks, "isfile")
            /\ IF ~IsFile(fs, args.file)
               THEN /\ stderr' = Append(stderr, ErrFileNotFound)
                    /\ Exit(1)
               ELSE /\ pc' = "credentials"
                    /\ UNCHANGED <<stderr, exitStatus>>
            /\ UNCHANGED <<fs, genLog, stdout>>
       ELSE LET r == generate_run_gpx(DefaultDistance, DefaultPointsPerKm, clock, fs,
                                      Len(genLog) + 1)
            IN /\ checks' = Append(checks, "generate")
               /\ fs' = r.disk
               /\ genLog' = Append(genLog, LogEntry(r))
               /\ IF r.outcome = "returned"
                  THEN /\ path' = r.path
                       /\ stdout' = Append(stdout, "GPX file saved to <fn>")
                       /\ pc' = "credentials"
                       /\ UNCHANGED <<stderr, exitStatus>>
                  ELSE \* an uncaught exception: traceback, status 1
                       /\ stderr' = Append(stderr, "Traceback: " \o r.outcome)
                       /\ Exit(1)
                       /\ UNCHANGED <<path, stdout>>
    /\ UNCHANGED <<clock, ticks, args, environ, loginResult, uploadResult>>

\* upload_to_garmin, lines 21-27
LoadCredentials ==
    /\ pc = "credentials"
    /\ checks' = Append(checks, "credentials")
    /\ IF Falsy(environ.username) \/ Falsy(environ.password)
       THEN /\ stderr' = Append(stderr, ErrCredentials)
            /\ Exit(1)
       ELSE /\ pc' = "login"
            /\ UNCHANGED <<stderr, exitStatus>>
    /\ UNCHANGED <<clock, ticks, fs, genLog, args, environ, path, stdout,
                   loginResult, uploadResult>>

\* Login without the sys.exit(1) of its except clause
LoginNoExit ==
    /\ pc = "login"
    /\ checks' = Append(checks, "login")
    /\ \E outcome \in {"ok", "raised"} :
          /\ loginResult' = outcome
          /\ IF outcome = "raised"
             THEN /\ stderr' = Append(stderr, ErrLogin)
                  /\ UNCHANGED stdout
             ELSE /\ stdout' = Append(stdout, "Logged in to Garmin Connect")
                  /\ UNCHANGED stderr
          /\ pc' = "extension"
          /\ UNCHANGED exitStatus
    /\ UNCHANGED <<clock, ticks, fs, genLog, args, environ, path, uploadResult>>

\* Login with the extension validated before the network call
LoginExtensionFirst ==
    /\ pc = "login"
    /\ IF Unsupported(path)
       THEN /\ checks' = Append(checks, "extension")
            /\ stderr' = Append(stderr, ErrExtension)
            /\ Exit(1)
            /\ UNCHANGED <<stdout, loginResult>>
       ELSE /\ checks' = Append(checks, "login")
            /\ \E outcome \in {"ok", "raised"} :
                  /\ loginResult' = outcome
                  /\ IF outcome = "raised"
                     THEN /\ stderr' = Append(stderr, ErrLogin)
                          /\ Exit(1)
                          /\ UNCHANGED stdout
                     ELSE /\ stdout' = Append(stdout, "Logged in to Garmin Connect")
                          /\ pc' = "extension"
                          /\ UNCHANGED <<stderr, exitStatus>>
    /\ UNCHANGED <<clock, ticks, fs, genLog, args, environ, path, uploadResult>>

\* upload_to_garmin, lines 29-36: client.login() returns or raises
Login ==
    /\ pc = "login"
    /\ checks' = Append(checks, "login")
    /\ \E outcome \in {"ok", "raised"} :
          /\ loginResult' = outcome
          /\ IF outcome = "raised"
             THEN /\ stderr' = Append(stderr, ErrLogin)
                  /\ Exit(1)
                  /\ UNCHANGED stdout
             ELSE /\ stdout' = Append(stdout, "Logged in to Garmin Connect")
                  /\ pc' = "extension"
                  /\ UNCHANGED <<stderr, exitStatus>>
    /\ UNCHANGED <<clock, ticks, fs, genLog, args, environ, path, uploadResult>>

\* DetermineType by file_path.lower().endswith(('fit', 'gpx'))
DetermineTypeBySuffix ==
    /\ pc = "extension"
    /\ checks' = Append(checks, "extension")
    /\ LET low == Lower(path)
           tail == IF Len(low) < 3 THEN low ELSE SubSeq(low, Len(low) - 2, Len(low))
       IN IF tail # <<"f", "i", "t">> /\ tail # <<"g", "p", "x">>
          THEN /\ stderr' = Append(stderr, ErrExtension)
               /\ Exit(1)
          ELSE /\ pc' = "upload"
               /\ UNCHANGED <<stderr, exitStatus>>
    /\ UNCHANGED <<clock, ticks, fs, genLog, args, environ, path, stdout,
                   loginResult, uploadResult>>

\* upload_to_garmin, lines 38-42
DetermineType ==
    /\ pc = "extension"
    /\ checks' = Append(checks, "extension")
    /\ LET ext == Lower(SplitExt(path))
       IN IF ext # ExtFit /\ ext # ExtGpx
          THEN /\ stderr' = Append(stderr, ErrExtension)
               /\ Exit(1)
          ELSE /\ pc' = "upload"
               /\ UNCHANGED <<stderr, exitStatus>>
    /\ UNCHANGED <<clock, ticks, fs, genLog, args, environ, path, stdout,
                   loginResult, uploadResult>>

\* UploadActivity without the sys.exit(1) of its except clause
UploadActivityNoExit ==
    /\ pc = "upload"
    /\ checks' = Append(checks, "upload")
    /\ \E outcome \in {"ok", "raised"} :
          /\ uploadResult' = outcome
          /\ IF outcome = "raised"
             THEN /\ stderr' = Append(stderr, ErrUpload)
                  /\ stdout' = stdout \o <<"Uploading <path>", "Upload complete!">>
             ELSE /\ stdout' = stdout \o <<"Uploading <path>", "Upload complete!">>
                  /\ UNCHANGED stderr
          /\ Exit(0)
    /\ UNCHANGED <<clock, ticks, fs, genLog, args, environ, path, loginResult>>

\* upload_to_garmin, lines 44-51: client.upload_activity() returns or raises
UploadActivity ==
    /\ pc = "upload"
    /\ checks' = Append(checks, "upload")
    /\ \E outcome \in {"ok", "raised"} :
          /\ uploadResult' = outcome
          /\ IF outcome = "raised"
             THEN /\ stdout' = Append(stdout, "Uploading <path>")
                  /\ stderr' = Append(stderr, ErrUpload)
                  /\ Exit(1)
             ELSE /\ stdout' = stdout \o <<"Uploading <path>", "Upload complete!">>
                  /\ Exit(0)
                  /\ UNCHANGED stderr
    /\ UNCHANGED <<clock, ticks, fs, genLog, args, environ, path, loginResult>>

----------------------------------------------------------------------------
(* Specifications *)

\* one run of garmin_uploader.py
Init ==
    /\ clock \in StartTimes
    /\ ticks = 0
    /\ fs \in {EmptyDisk, FullDisk}
    /\ genLog = <<>>
    /\ pc = "parse"
    /\ args \in ArgChoices
    /\ environ \in [username : EnvValues, password : EnvValues]
    /\ path = <<>>
    /\ checks = <<>>
    /\ stdout = <<>>
    /\ stderr = <<>>
    /\ exitStatus = -1
    /\ loginResult = "none"
    /\ uploadResult = "none"

Next ==
    \/ ParseArgs
    \/ ResolvePath
    \/ LoadCredentials
    \/ Login
    \/ DetermineType
    \/ UploadActivity

Spec == Init /\ [][Next]_vars

\* a sequence of generate_run_gpx calls while the clock runs
GenInit ==
    /\ clock \in StartTimes
    /\ ticks = 0
    /\ fs = EmptyDisk
    /\ genLog = <<>>
    /\ pc = "idle"
    /\ args = [kind |-> "ok", given |-> FALSE, file |-> <<>>]
    /\ environ = [username |-> NoneValue, password |-> NoneValue]
    /\ path = <<>>
    /\ checks = <<>>
    /\ stdout = <<>>
    /\ stderr = <<>>
    /\ exitStatus = -1
    /\ loginResult = "none"
    /\ uploadResult = "none"

GenNext ==
    \/ Tick
    \/ GenCall

GenSpec == GenInit /\ [][GenNext]_vars

----------------------------------------------------------------------------
(* Vocabulary of the properties *)

Has(seq, x) == \E i \in DOMAIN seq : seq[i] = x

IsPrefix(a, b) == Len(a) <= Len(b) /\ \A i \in 1..Len(a) : a[i] = b[i]

Exited == pc = "exited"

CredentialsMissing == Falsy(environ.username) \/ Falsy(environ.password)

\* the diagnostics of the five handled failures
FiveFailures == {ErrCredentials, ErrFileNotFound, ErrLogin, ErrExtension, ErrUpload}

\* the check that prints a diagnostic
FailedCheck(e) ==
    CASE e = ErrFileNotFound -> "isfile"
      [] e = ErrCredentials -> "credentials"
      [] e = ErrLogin -> "login"
      [] e = ErrExtension -> "extension"
      [] e = ErrUpload -> "upload"
      [] OTHER -> "parse"

\* the invocations of the generator that returned a path
Returned == {i \in DOMAIN genLog : genLog[i].outcome = "returned"}

\* the files some generation wrote
Generated == {p \in DOMAIN fs : fs[p].kind = "file" /\ fs[p].gen > 0}

----------------------------------------------------------------------------
(* Properties of the uploader (specification Spec) *)

\* C1: upload_activity is attempted only after login() was called and
\* returned; when login() raises, the run prints "Login failed: ..." (and
\* nothing else on stderr), exits 1 and never calls upload_activity.
C1_UploadOnlyAfterLogin ==
    /\ (uploadResult # "none" \/ Has(checks, "upload")) =>
          /\ loginResult = "ok"
          /\ \E i, j \in DOMAIN checks :
                i < j /\ checks[i] = "login" /\ checks[j] = "upload"
    /\ loginResult = "raised" =>
          /\ Exited
          /\ exitStatus = 1
          /\ stderr = <<ErrLogin>>
          /\ uploadResult = "none"
          /\ ~Has(checks, "upload")

C1_Witness == loginResult = "raised" /\ Exited /\ Has(checks, "login")

\* C2 as claimed: the process ends with status 0 exactly when login() and
\* upload_activity() were both called and both returned; each of the five
\* handled failures ends it with status 1.
C2_ExitZeroIffBothSucceeded ==
    Exited =>
       /\ exitStatus = 0 <=> (loginResult = "ok" /\ uploadResult = "ok")
       /\ \A e \in FiveFailures : Has(stderr, e) => exitStatus = 1

\* C2 amended: the process ends with status 0 exactly when the command line
\* asked for the help (-h/--help: parse_args prints it and exits 0 before any
\* check) or login() and upload_activity() were both called and both
\* returned; each of the five handled failures ends it with status 1.
C2_ExitZeroIffHelpOrBothSucceeded ==
    Exited =>
       /\ exitStatus = 0 <=>
             (args.kind = "help" \/ (loginResult = "ok" /\ uploadResult = "ok"))
       /\ \A e \in FiveFailures : Has(stderr, e) => exitStatus = 1

C2_Witness ==
    Exited /\ exitStatus = 0 /\ loginResult = "ok" /\ uploadResult = "ok"

\* C3 as claimed: when --file/-f is given a path that is no existing regular
\* file, the run ends with status 1, the generator is never invoked (no file
\* is written), and credentials, login and upload are never reached.
C3_MissingFileStopsRun ==
    (args.kind = "ok" /\ args.given /\ ~IsFile(fs, args.file)) =>
       /\ genLog = <<>>
       /\ Generated = {}
       /\ \A i \in DOMAIN checks : checks[i] = "isfile"
       /\ loginResult = "none" /\ uploadResult = "none"
       /\ Exited => exitStatus = 1

\* C3 where the code agrees with it: the same, for a path that is not the
\* empty string.
C3_MissingNonEmptyFileStopsRun ==
    (args.kind = "ok" /\ args.given /\ args.file # <<>> /\ ~IsFile(fs, args.file)) =>
       /\ genLog = <<>>
       /\ Generated = {}
       /\ \A i \in DOMAIN checks : checks[i] = "isfile"
       /\ loginResult = "none" /\ uploadResult = "none"
       /\ Exited => exitStatus = 1 /\ stderr = <<ErrFileNotFound>>

C5_UnsupportedExtensionRejected ==
    (IsFile(fs, path) /\ Unsupported(path)) =>
       /\ uploadResult = "none"
       /\ ~Has(checks, "upload")
       /\ Exited => exitStatus = 1
       /\ Has(stderr, ErrExtension) =>
             /\ Exited
             /\ ~CredentialsMissing
             /\ \E i, j \in DOMAIN checks :
                   i < j /\ checks[i] = "credentials" /\ checks[j] = "extension"

C5_Witness ==
    IsFile(fs, path) /\ Unsupported(path) /\ Exited /\ stderr = <<ErrExtension>>

\* C7: the checks run in the fixed order path resolution, credentials,
\* login, extension, upload, and the run stops at the first that fails with
\* exactly one diagnostic; so the extension error implies a login that
\* returned, and a login that raised leaves "Login failed" as the only
\* diagnostic, whatever the extension.
C7_FixedCheckOrder ==
    /\ checks # <<>> =>
          /\ checks[1] \in {"isfile", "generate"}
          /\ IsPrefix(Tail(checks), <<"credentials", "login", "extension", "upload">>)
    /\ Len(stderr) <= 1
    /\ stderr # <<>> =>
          /\ Exited
          /\ checks # <<>> => checks[Len(checks)] = FailedCheck(stderr[1])
    /\ Has(stderr, ErrExtension) => loginResult = "ok"
    /\ loginResult = "raised" => stderr = <<ErrLogin>>

C7_Witness ==
    /\ IsFile(fs, path)
    /\ Unsupported(path)
    /\ loginResult = "raised"
    /\ Exited
    /\ stderr = <<ErrLogin>>

----------------------------------------------------------------------------
(* Properties of the generator (specification GenSpec) *)

\* C6 as claimed: in every generated file with points_per_km > 0, the
\* timestamps of consecutive track points differ by exactly
\* 360 / points_per_km seconds and are strictly increasing.
C6_EvenlySpacedTimestamps ==
    \A p \in Generated :
       fs[p].ppk > 0 =>
          \A i \in 1..(Len(fs[p].times) - 1) :
             LET d == CivilSeconds(fs[p].times[i + 1]) - CivilSeconds(fs[p].times[i])
             IN d * fs[p].ppk = pace_sec /\ d > 0

\* C6 where the code agrees with it: the same, for a points_per_km that
\* divides 360 (a whole number of seconds between points).
C6_EvenlySpacedWhenWholeSeconds ==
    \A p \in Generated :
       (fs[p].ppk > 0 /\ pace_sec % fs[p].ppk = 0) =>
          \A i \in 1..(Len(fs[p].times) - 1) :
             LET d == CivilSeconds(fs[p].times[i + 1]) - CivilSeconds(fs[p].times[i])
             IN d * fs[p].ppk = pace_sec /\ d > 0

\* C8: two generations that returned wrote the identical path exactly when
\* their start times fall in the same second; every path a generation
\* returned holds the file of the latest generation that returned it, so a
\* file is replaced only by a later generation of the same second, and then
\* silently.
C8_OverwriteOnlyWithinSameSecond ==
    /\ \A i, j \in Returned :
          genLog[i].path = genLog[j].path <=> genLog[i].time0.s = genLog[j].time0.s
    /\ \A i \in Returned :
          /\ genLog[i].path \in Generated
          /\ fs[genLog[i].path].gen \in Returned
          /\ fs[genLog[i].path].gen >= i
          /\ genLog[fs[genLog[i].path].gen].time0.s = genLog[i].time0.s
          /\ \A j \in Returned :
                genLog[j].path = genLog[i].path => j <= fs[genLog[i].path].gen

C8_Witness ==
    /\ Returned = {1, 2}
    /\ genLog[1].time0 # genLog[2].time0
    /\ genLog[1].path = genLog[2].path
    /\ fs[genLog[1].path].gen = 2
    /\ Cardinality(Generated) = 1

\* an invocation whose point count is 0 raised ZeroDivisionError at the
\* per-point distance and returned no path; no file is of its writing, and
\* the output directory exists only if some invocation returned
ZeroCountAborts ==
    /\ \A i \in DOMAIN genLog :
          TotalPoints(genLog[i].dist, genLog[i].ppk) = 0 =>
             /\ genLog[i].outcome = "ZeroDivisionError"
             /\ genLog[i].raisedAt = "dist_km"
             /\ genLog[i].path = <<>>
             /\ \A p \in Generated : fs[p].gen # i
    /\ OutputDir \in DOMAIN fs => Returned # {}
    /\ \A p \in Generated : fs[p].gen \in Returned

\* C10 as claimed: a point count of 0 aborts the generator with
\* ZeroDivisionError before anything is written, and the generator never
\* produces a track file with zero points.
C10_ZeroCountAbortsNeverEmptyFile ==
    /\ ZeroCountAborts
    /\ \A p \in Generated : Len(fs[p].times) >= 1

\* C10 amended: a point count of 0 aborts the generator with
\* ZeroDivisionError before anything is written; a track file with zero
\* points is produced only for a negative point count (a negative distance
\* or density), for which the loop body never runs.
C10_ZeroCountAbortsEmptyFileOnlyIfNegative ==
    /\ ZeroCountAborts
    /\ \A p \in Generated :
          LET e == genLog[fs[p].gen]
          IN /\ Len(fs[p].times) = 0 => TotalPoints(e.dist, e.ppk) < 0
             /\ TotalPoints(e.dist, e.ppk) > 0 =>
                   Len(fs[p].times) = TotalPoints(e.dist, e.ppk)

C10_Witness ==
    /\ Len(genLog) = 2
    /\ genLog[1].outcome = "ZeroDivisionError" /\ genLog[1].ppk = 0
    /\ genLog[2].outcome = "ZeroDivisionError" /\ genLog[2].ppk > 0
    /\ DOMAIN fs = {}

====
